---- MODULE Spec2Model ----
(***************************************************************************)
(* Model of the ML classification service: the DocumentPipeline            *)
(* (ml-service/app/pipeline.py), the ClassifierService                     *)
(* (services/classifier.py), the OCR and bounding-box adapters, and the    *)
(* FastAPI handlers and lifespan of ml-service/app/main.py.                *)
(*                                                                         *)
(* Strings are sequences of one-character strings, so that lower(),        *)
(* strip(), startswith(), slicing and join() are computed, not assumed.    *)
(* Scores are integers in percent (0.85 is 85, 0.0 is 0).                  *)
(* An optional value is a sequence of length 0 (None) or 1.                *)
(***************************************************************************)
EXTENDS Integers, Sequences, FiniteSets, TLC

\* ------------------------------------------------------------------ bounds

\* longest text a decode or one OCR call yields
MaxLen == 2
\* most pages a PDF document holds
MaxDocPages == 3
\* Settings.ocr_max_pdf_pages (default 10), scaled down so that truncation happens
OcrMaxPdfPages == 2
\* classifier.MAX_TEXT_CHARS (10 000 in the code), scaled down so that slicing happens
MAX_TEXT_CHARS == 3
\* most results a detector run returns when the extractor is called on its own
MaxResults == 2
\* most polygons one such result holds
MaxPolys == 1
\* largest max_pages a rasterizing function is called with on its own
MaxPagesArg == 3
\* longest configured candidate_labels string
MaxLabelChars == 3
\* most requests one run of the correlation middleware serves
MaxRequests == 2
\* most times a handler asks for the correlation id
MaxReads == 2

\* ------------------------------------------------------------ str helpers

Alphabet == {"a", " "}

\* the characters str.strip() removes that the model's texts can hold
Whitespace == {" ", "\n", "\t"}

RECURSIVE SeqsUpTo(_, _)
SeqsUpTo(S, n) ==
    IF n = 0 THEN {<<>>}
    ELSE LET shorter == SeqsUpTo(S, n - 1)
         IN  shorter \cup {Append(s, c) : s \in {t \in shorter : Len(t) = n - 1}, c \in S}

RawTexts == SeqsUpTo(Alphabet, MaxLen)

RECURSIVE LStrip(_)
LStrip(s) ==
    IF s = <<>> THEN s
    ELSE IF Head(s) \in Whitespace THEN LStrip(Tail(s)) ELSE s

RECURSIVE RStrip(_)
RStrip(s) ==
    IF s = <<>> THEN s
    ELSE IF s[Len(s)] \in Whitespace THEN RStrip(SubSeq(s, 1, Len(s) - 1)) ELSE s

\* str.strip()
Strip(s) == RStrip(LStrip(s))

\* a mutant of IsBlank: only the empty string is caught
IsBlankEmptyOnly(text) == text = <<>>

\* the guard `not text or not text.strip()`
IsBlank(text) == text = <<>> \/ Strip(text) = <<>>

Separator == <<"\n", "\n">>

\* "\n\n".join(texts)
RECURSIVE Join(_)
Join(texts) ==
    IF texts = <<>> THEN <<>>
    ELSE IF Len(texts) = 1 THEN texts[1]
    ELSE texts[1] \o Separator \o Join(Tail(texts))

\* text[:n]
Slice(text, n) == SubSeq(text, 1, IF Len(text) < n THEN Len(text) ELSE n)

\* str.startswith
StartsWith(s, p) == Len(s) >= Len(p) /\ SubSeq(s, 1, Len(p)) = p

Uppers == <<"A","B","C","D","E","F","G","H","I","J","K","L","M",
            "N","O","P","Q","R","S","T","U","V","W","X","Y","Z">>
Lowers == <<"a","b","c","d","e","f","g","h","i","j","k","l","m",
            "n","o","p","q","r","s","t","u","v","w","x","y","z">>

LowerChar(c) ==
    IF \E k \in 1..Len(Uppers) : Uppers[k] = c
    THEN Lowers[CHOOSE k \in 1..Len(Uppers) : Uppers[k] = c]
    ELSE c

UpperChar(c) ==
    IF \E k \in 1..Len(Lowers) : Lowers[k] = c
    THEN Uppers[CHOOSE k \in 1..Len(Lowers) : Lowers[k] = c]
    ELSE c

\* a mutant of MimeLower: the MIME type is compared as given
MimeLowerNoFold(mime) == mime

\* mime_type.lower()
MimeLower(mime) == [k \in 1..Len(mime) |-> LowerChar(mime[k])]

\* ----------------------------------------------------------- MIME strings

ApplicationPdf == <<"a","p","p","l","i","c","a","t","i","o","n","/","p","d","f">>
ImagePrefix == <<"i","m","a","g","e","/">>
TextPrefix == <<"t","e","x","t","/">>

BaseMimes ==
    { ApplicationPdf,
      ImagePrefix \o <<"p","n","g">>,
      TextPrefix \o <<"p","l","a","i","n">>,
      ApplicationPdf \o <<"x">>,
      <<"t","e","x","t">> }

\* letter-casings of a lower-case MIME string: as is, all upper case, and
\* upper case on the odd positions only
Casings == {"lower", "upper", "odd"}

Recase(m, casing) ==
    [k \in 1..Len(m) |->
        IF \/ casing = "upper"
           \/ casing = "odd" /\ k % 2 = 1
        THEN UpperChar(m[k]) ELSE m[k]]

\* ---------------------------------------------------------------- routing

\* a mutant of ExtractRoute: application/pdf is matched as a prefix
ExtractRoutePdfPrefix(mime) ==
    LET mime_lower == MimeLower(mime)
    IN  IF StartsWith(mime_lower, TextPrefix) THEN "text"
        ELSE IF StartsWith(mime_lower, ApplicationPdf) THEN "pdf"
        ELSE IF StartsWith(mime_lower, ImagePrefix) THEN "image"
        ELSE "fallback"

\* DocumentPipeline._extract_text: the branch taken
ExtractRoute(mime) ==
    LET mime_lower == MimeLower(mime)
    IN  IF StartsWith(mime_lower, TextPrefix) THEN "text"
        ELSE IF mime_lower = ApplicationPdf THEN "pdf"
        ELSE IF StartsWith(mime_lower, ImagePrefix) THEN "image"
        ELSE "fallback"

\* a mutant of OcrRoute: text-like types are sent through the image branch
OcrRouteAllVisual(mime) ==
    LET mime_lower == MimeLower(mime)
    IN  IF mime_lower = ApplicationPdf THEN "pdf_ocr" ELSE "image_ocr"

\* DocumentPipeline.classify_and_ocr_document: the branch taken
OcrRoute(mime) ==
    LET mime_lower == MimeLower(mime)
    IN  IF mime_lower = ApplicationPdf THEN "pdf_ocr"
        ELSE IF StartsWith(mime_lower, ImagePrefix) THEN "image_ocr"
        ELSE "other"

\* ---------------------------------------------------------------- content

\* the page images of a document of n pages; page k is k+1 pixels wide and
\* 2k+1 pixels high, so that every page and both dimensions are distinguishable
PagesOf(n) == [k \in 1..n |-> [w |-> k + 1, h |-> 2 * k + 1]]

\* what the bytes of a binary file decode to as latin-1 text
BinaryAsText == <<"a">>

\* the request payload: undecodable base64, text bytes, a PDF or an image
Contents ==
    {[kind |-> "bad_b64", text |-> <<>>, pages |-> <<>>]}
    \cup {[kind |-> "text", text |-> t, pages |-> <<>>] : t \in RawTexts}
    \cup {[kind |-> "pdf", text |-> BinaryAsText, pages |-> PagesOf(n)] : n \in 0..MaxDocPages}
    \cup {[kind |-> "image", text |-> BinaryAsText, pages |-> PagesOf(1)]}

\* DocumentPipeline._decode_text: utf-8, else latin-1, never raises
DecodeText(content) == content.text

\* fitz.open raises on bytes that are no PDF
PdfOpens(content) == content.kind = "pdf"

\* Image.open raises on bytes that are no image
ImageOpens(content) == content.kind = "image"

Min(a, b) == IF a < b THEN a ELSE b

\* a mutant of PdfBytesToImages: the page limit is ignored
PdfBytesToImagesNoLimit(content, max_pages) == content.pages

\* pdf_bytes_to_images: the images of the first min(len(doc), max_pages)
\* pages, in order (an image is told by its dimensions)
PdfBytesToImages(content, max_pages) ==
    LET page_count == Min(Len(content.pages), max_pages)
    IN  [page_num \in 1..page_count |-> content.pages[page_num]]

\* pdf_bytes_to_images_with_dims: (image, width, height) of the first
\* min(len(doc), max_pages) pages, in order
PdfBytesToImagesWithDims(content, max_pages) ==
    LET page_count == Min(Len(content.pages), max_pages)
    IN  [page_num \in 1..page_count |-> content.pages[page_num]]

\* --------------------------------------------------------------- adapters

\* a mutant of OcrExtractText: the decoded text is returned unstripped
OcrExtractTextNoStrip(decoded) == decoded

\* OCRService.extract_text: the model's decoded continuation, stripped
OcrExtractText(decoded) == Strip(decoded)

\* the polygons the text detector reports in the pipeline runs (4 points,
\* [x, y]): a slanted quadrilateral, whose box is none of its edges
Polygons == { << <<5, 1>>, <<9, 4>>, <<6, 8>>, <<2, 5>> >> }

SeqMin(s) == CHOOSE m \in {s[k] : k \in 1..Len(s)} : \A k \in 1..Len(s) : m <= s[k]
SeqMax(s) == CHOOSE m \in {s[k] : k \in 1..Len(s)} : \A k \in 1..Len(s) : m >= s[k]

\* a mutant of PolygonBox: the first and third points are taken for the
\* top-left and bottom-right corners
PolygonBoxFromCorners(polygon) ==
    [x |-> polygon[1][1], y |-> polygon[1][2],
     width |-> polygon[3][1] - polygon[1][1],
     height |-> polygon[3][2] - polygon[1][2]]

\* the axis-aligned rectangle of one polygon
PolygonBox(polygon) ==
    LET xs == [k \in 1..Len(polygon) |-> polygon[k][1]]
        ys == [k \in 1..Len(polygon) |-> polygon[k][2]]
    IN  [x |-> SeqMin(xs), y |-> SeqMin(ys),
         width |-> SeqMax(xs) - SeqMin(xs), height |-> SeqMax(ys) - SeqMin(ys)]

\* what detector.predict returns: a list of results, each with dt_polys
\* None (the empty option) or a list of polygons
DetectorOutputs ==
    { <<>>, << [dt_polys |-> <<>>] >>, << [dt_polys |-> << <<>> >>] >> }
    \cup { << [dt_polys |-> << <<p>> >>] >> : p \in Polygons }

\* BBoxExtractor.detect_boxes: one box per polygon, results without
\* polygons skipped
RECURSIVE DetectBoxes(_)
DetectBoxes(output) ==
    IF output = <<>> THEN <<>>
    ELSE LET res == Head(output)
             polys == IF res.dt_polys = <<>> THEN <<>> ELSE res.dt_polys[1]
         IN  [k \in 1..Len(polys) |-> PolygonBox(polys[k])] \o DetectBoxes(Tail(output))

\* TextBlock(text="", bbox=BoundingBox(**box)); confidence defaults to None
TextBlock(box) == [text |-> <<>>, bbox |-> box, confidence |-> <<>>]

BlocksOf(raw_boxes) == [k \in 1..Len(raw_boxes) |-> TextBlock(raw_boxes[k])]

OcrPage(pageIndex, width, height, text, blocks) ==
    [pageIndex |-> pageIndex, width |-> width, height |-> height,
     text |-> text, blocks |-> blocks]

OcrResult(pages, fullText) == [pages |-> pages, fullText |-> fullText]

\* Settings.get_candidate_labels(): the first two of the default labels
CandidateLabels == <<"invoice", "contract">>

\* str.split(sep) for a one-character separator
RECURSIVE Split(_, _)
Split(s, sep) ==
    IF \A k \in 1..Len(s) : s[k] # sep THEN <<s>>
    ELSE LET k == CHOOSE i \in 1..Len(s) : s[i] = sep /\ \A j \in 1..(i - 1) : s[j] # sep
         IN  <<SubSeq(s, 1, k - 1)>> \o Split(SubSeq(s, k + 1, Len(s)), sep)

\* Settings.get_candidate_labels():
\* [label.strip() for label in self.candidate_labels.split(",")]
GetCandidateLabels(candidate_labels) ==
    LET parts == Split(candidate_labels, ",")
    IN  [k \in 1..Len(parts) |-> Strip(parts[k])]

\* what the zero-shot model returns for a label list: the labels ranked by
\* descending score, with the scores
ModelOutputs(labels) ==
    { [labels |-> <<labels[p[1]], labels[p[2]]>>, scores |-> sc] :
        p \in {<<1, 2>>, <<2, 1>>}, sc \in {<<85, 15>>} }

\* a mutant of ClassifierClassify: the empty-text guard is missing
ClassifierClassifyNoGuard(text, out) == <<out.labels[1], out.scores[1]>>

\* ClassifierService.classify: the value returned, given the model's output
ClassifierClassify(text, out) ==
    IF IsBlank(text) THEN <<"unknown", 0>>
    ELSE <<out.labels[1], out.scores[1]>>

\* a mutant of Trimmed: one character too many is kept
TrimmedOneMore(text) == Slice(text, MAX_TEXT_CHARS + 1)

\* the text ClassifierService.classify hands to the model
Trimmed(text) == Slice(text, MAX_TEXT_CHARS)

\* ------------------------------------------------------------------ state

VARIABLES
    phase,          \* position of lifespan() in its body
    models_loaded,  \* main._models_loaded
    pipeline_ref,   \* main._pipeline: "None" or "pipeline"
    pc,             \* position of the one call in flight
    req,            \* the call: who makes it, operation, MIME type (and the
                    \* lower-case string it is a casing of), content
    frame,          \* locals of the running DocumentPipeline method
    calls,          \* adapter invocations of the call, in order
    ret,            \* what the DocumentPipeline method returned or raised
    response,       \* the HTTP response of the handler
    pipeline_requests_total,
                    \* metrics.PIPELINE_REQUESTS_TOTAL: the increments made
                    \* since the call arrived, as (endpoint, status) labels
    unit            \* a service called on its own, as its unit tests call
                    \* it: the function, its arguments and its outcome

vars == <<phase, models_loaded, pipeline_ref, pc, req, frame, calls, ret, response, pipeline_requests_total, unit>>

lifecycle == <<phase, models_loaded, pipeline_ref>>

application ==
    <<phase, models_loaded, pipeline_ref, pc, req, frame, calls, ret, response,
      pipeline_requests_total>>

Ops == {"classify_document", "classify_and_ocr_document"}

NoReq == [via |-> "none", op |-> "none", at |-> "none", mime |-> <<>>, base |-> <<>>,
          content |-> [kind |-> "bad_b64", text |-> <<>>, pages |-> <<>>],
          bbox |-> FALSE]

NoFrame == [route |-> "none", page_data |-> <<>>, i |-> 0, pages |-> <<>>,
            all_texts |-> <<>>, page_text |-> <<>>, text |-> <<>>, ocr |-> <<>>]

NoRet == [kind |-> "none", value |-> <<>>, cause |-> "none"]

NoResponse == [status |-> 0, keys |-> {}, detail |-> "none", body |-> <<>>]

Return(value) == [kind |-> "return", value |-> value, cause |-> "none"]

Raise(cause) == [kind |-> "raise", value |-> <<>>, cause |-> cause]

Call(adapter, page, text, boxes, ok) ==
    [adapter |-> adapter, page |-> page, text |-> text, boxes |-> boxes,
     ok |-> ok, labels |-> <<>>, scores |-> <<>>, result |-> <<>>]

\* the zero-shot model's run inside ClassifierService.classify
ModelCall(text, out, ok) ==
    [adapter |-> "model", page |-> 0, text |-> text, boxes |-> <<>>,
     ok |-> ok, labels |-> out.labels, scores |-> out.scores, result |-> <<>>]

\* ClassifierService.classify as the pipeline calls it, with what it returned
ClassifyCall(text, result, ok) ==
    [adapter |-> "classify", page |-> 0, text |-> text, boxes |-> <<>>,
     ok |-> ok, labels |-> <<>>, scores |-> <<>>, result |-> result]

NoOut == [labels |-> <<>>, scores |-> <<>>]

NoUnit == [fn |-> "none", done |-> FALSE]

Init ==
    /\ phase = "start"
    /\ models_loaded = FALSE
    /\ pipeline_ref = "None"
    /\ pc = "idle"
    /\ req = NoReq
    /\ frame = NoFrame
    /\ calls = <<>>
    /\ ret = NoRet
    /\ response = NoResponse
    /\ pipeline_requests_total = <<>>
    /\ unit = NoUnit

\* --------------------------------------------------------------- lifespan
\* lifespan runs beside the worker thread of a request and may take its
\* next step at any point of the handler or of the pipeline method it
\* called; a direct call is made while no application is running.

LifespanMayStep == req.via # "direct"

\* classifier.load(...): returns, or raises out of lifespan
LoadClassifier ==
    /\ LifespanMayStep /\ phase = "start"
    /\ \E ok \in BOOLEAN : phase' = IF ok THEN "classifier_loaded" ELSE "failed"
    /\ UNCHANGED <<models_loaded, pipeline_ref, pc, req, frame, calls, ret, response, pipeline_requests_total, unit>>

\* ocr.load(...)
LoadOcr ==
    /\ LifespanMayStep /\ phase = "classifier_loaded"
    /\ \E ok \in BOOLEAN : phase' = IF ok THEN "ocr_loaded" ELSE "failed"
    /\ UNCHANGED <<models_loaded, pipeline_ref, pc, req, frame, calls, ret, response, pipeline_requests_total, unit>>

\* bbox_extractor.load()
LoadBbox ==
    /\ LifespanMayStep /\ phase = "ocr_loaded"
    /\ \E ok \in BOOLEAN : phase' = IF ok THEN "bbox_loaded" ELSE "failed"
    /\ UNCHANGED <<models_loaded, pipeline_ref, pc, req, frame, calls, ret, response, pipeline_requests_total, unit>>

\* _pipeline = DocumentPipeline(...)
ConstructPipeline ==
    /\ LifespanMayStep /\ phase = "bbox_loaded"
    /\ pipeline_ref' = "pipeline"
    /\ phase' = "constructed"
    /\ UNCHANGED <<models_loaded, pc, req, frame, calls, ret, response, pipeline_requests_total, unit>>

\* a mutant of SetLoaded: the flag is raised once the loads are over,
\* without the pipeline having been constructed
SetLoadedEarly ==
    /\ LifespanMayStep /\ phase = "bbox_loaded"
    /\ models_loaded' = TRUE
    /\ phase' = "serving"
    /\ UNCHANGED <<pipeline_ref, pc, req, frame, calls, ret, response, pipeline_requests_total, unit>>

\* _models_loaded = True; yield
SetLoaded ==
    /\ LifespanMayStep /\ phase = "constructed"
    /\ models_loaded' = TRUE
    /\ phase' = "serving"
    /\ UNCHANGED <<pipeline_ref, pc, req, frame, calls, ret, response, pipeline_requests_total, unit>>

\* shutdown: _models_loaded = False
ClearLoaded ==
    /\ LifespanMayStep /\ phase = "serving"
    /\ models_loaded' = FALSE
    /\ phase' = "stopping"
    /\ UNCHANGED <<pipeline_ref, pc, req, frame, calls, ret, response, pipeline_requests_total, unit>>

\* shutdown: _pipeline = None
ClearPipeline ==
    /\ LifespanMayStep /\ phase = "stopping"
    /\ pipeline_ref' = "None"
    /\ phase' = "stopped"
    /\ UNCHANGED <<models_loaded, pc, req, frame, calls, ret, response, pipeline_requests_total, unit>>

\* ------------------------------------------------------ DocumentPipeline

\* a mutant of TextGuard: only the empty string is caught
TextGuardEmptyOnly(text) == text = <<>>

\* `if not text or not text.strip()` of classify_document and of the
\* text branch of classify_and_ocr_document
TextGuard(text) == text = <<>> \/ Strip(text) = <<>>

\* a mutant of StripGuard: the guard is missing
StripGuardNever(text) == FALSE

\* `if not full_text.strip()` / `if not page_text.strip()`
StripGuard(text) == Strip(text) = <<>>

\* the degenerate return value of an operation
Degenerate(op, ocr) ==
    IF op = "classify_document" THEN <<"unknown", 0>> ELSE <<"unknown", 0, ocr>>

\* a mutant of NoPagesResult: an OcrResult without pages is returned
NoPagesResultWithOcr == <<"unknown", 0, <<OcrResult(<<>>, <<>>)>> >>

\* `if not page_data: return "unknown", 0.0, None`
NoPagesResult == <<"unknown", 0, <<>> >>

\* a mutant of NoTextResult: the pages are dropped with the text
NoTextResultNull(pages) == <<"unknown", 0, <<>> >>

\* `if not full_text.strip(): return "unknown", 0.0,
\* OcrResult(pages=pages, fullText="")`
NoTextResult(pages) == <<"unknown", 0, <<OcrResult(pages, <<>>)>> >>

\* the tail shared by classify_document and the text branch of
\* classify_and_ocr_document, once _extract_text has returned
AfterExtract(route, text) ==
    IF TextGuard(text)
    THEN /\ ret' = Return(Degenerate(req.op, <<>>))
         /\ pc' = "returned"
         /\ frame' = [NoFrame EXCEPT !.route = route, !.text = text]
    ELSE /\ ret' = ret
         /\ pc' = "classify"
         /\ frame' = [NoFrame EXCEPT !.route = route, !.text = text]

\* _extract_text up to its first OCR call
ExtractText(prefix) ==
    LET route == ExtractRoute(req.mime)
        tag == prefix \o route
    IN  CASE route \in {"text", "fallback"} ->
               AfterExtract(tag, DecodeText(req.content))
          [] route = "pdf" ->
               IF ~PdfOpens(req.content)
               THEN /\ ret' = Raise("pdf_open") /\ pc' = "returned"
                    /\ frame' = [NoFrame EXCEPT !.route = tag]
               ELSE LET images == PdfBytesToImages(req.content, OcrMaxPdfPages)
                    IN  IF images = <<>>
                        THEN AfterExtract(tag, <<>>)
                        ELSE /\ ret' = ret /\ pc' = "extract_pdf"
                             /\ frame' = [NoFrame EXCEPT !.route = tag,
                                            !.page_data = images, !.i = 0]
          [] route = "image" ->
               IF ~ImageOpens(req.content)
               THEN /\ ret' = Raise("image_open") /\ pc' = "returned"
                    /\ frame' = [NoFrame EXCEPT !.route = tag]
               ELSE /\ ret' = ret /\ pc' = "extract_image"
                    /\ frame' = [NoFrame EXCEPT !.route = tag,
                                   !.page_data = req.content.pages]

\* classify_document / classify_and_ocr_document from entry to the first
\* adapter call: base64 decode, routing, rasterizing
Enter ==
    IF req.content.kind = "bad_b64"
    THEN /\ ret' = Raise("b64decode") /\ pc' = "returned" /\ frame' = NoFrame
    ELSE IF req.op = "classify_document"
    THEN ExtractText("")
    ELSE LET route == OcrRoute(req.mime)
         IN  CASE route = "pdf_ocr" ->
                    IF ~PdfOpens(req.content)
                    THEN /\ ret' = Raise("pdf_open") /\ pc' = "returned"
                         /\ frame' = [NoFrame EXCEPT !.route = route]
                    ELSE LET page_data == PdfBytesToImagesWithDims(req.content, OcrMaxPdfPages)
                         IN  IF page_data = <<>>
                             THEN /\ ret' = Return(NoPagesResult)
                                  /\ pc' = "returned"
                                  /\ frame' = [NoFrame EXCEPT !.route = route]
                             ELSE /\ ret' = ret /\ pc' = "pdf_ocr"
                                  /\ frame' = [NoFrame EXCEPT !.route = route,
                                                 !.page_data = page_data, !.i = 0]
               [] route = "image_ocr" ->
                    IF ~ImageOpens(req.content)
                    THEN /\ ret' = Raise("image_open") /\ pc' = "returned"
                         /\ frame' = [NoFrame EXCEPT !.route = route]
                    ELSE /\ ret' = ret /\ pc' = "image_ocr"
                         /\ frame' = [NoFrame EXCEPT !.route = route,
                                        !.page_data = req.content.pages]
               [] OTHER -> ExtractText("other_")

\* outcomes of one OCR model run: the decoded continuation, or an exception
OcrOutcomes == [ok : {TRUE}, decoded : RawTexts] \cup {[ok |-> FALSE, decoded |-> <<>>]}

\* a mutant of OcrRaises: a failed OCR run is taken for a page without text
OcrRaisesNever(o) == FALSE

\* self._ocr.extract_text(...) is called outside any try block: an exception
\* of the OCR run leaves the pipeline method at once
OcrRaises(o) == ~o.ok

\* outcomes of one detector run: its output, or an exception
DetectorOutcomes ==
    [ok : {TRUE}, output : DetectorOutputs] \cup {[ok |-> FALSE, output |-> <<>>]}

\* a mutant of AppendText: empty texts are kept
AppendTextAlways(texts, text) == Append(texts, text)

\* OCRService.extract_text_from_images: `if text: texts.append(text)`
AppendText(texts, text) == IF text # <<>> THEN Append(texts, text) ELSE texts

\* _extract_from_pdf -> OCRService.extract_text_from_images: one turn of
\* its loop, and after the last turn the join and the caller's tail
ExtractPdfStep ==
    /\ pc = "extract_pdf"
    /\ \E o \in OcrOutcomes :
        IF OcrRaises(o)
        THEN /\ calls' = Append(calls, Call("ocr", frame.i, <<>>, <<>>, FALSE))
             /\ ret' = Raise("ocr") /\ pc' = "returned" /\ frame' = frame
        ELSE LET text == OcrExtractText(o.decoded)
                 texts == AppendText(frame.all_texts, text)
             IN  /\ calls' = Append(calls, Call("ocr", frame.i, text, <<>>, o.ok))
                 /\ IF frame.i + 1 < Len(frame.page_data)
                    THEN /\ frame' = [frame EXCEPT !.i = frame.i + 1, !.all_texts = texts]
                         /\ pc' = pc /\ ret' = ret
                    ELSE AfterExtract(frame.route, Join(texts))
    /\ UNCHANGED <<lifecycle, unit, pipeline_requests_total, req, response>>

\* _extract_from_image -> OCRService.extract_text, and the caller's tail
ExtractImageStep ==
    /\ pc = "extract_image"
    /\ \E o \in OcrOutcomes :
        IF OcrRaises(o)
        THEN /\ calls' = Append(calls, Call("ocr", 0, <<>>, <<>>, FALSE))
             /\ ret' = Raise("ocr") /\ pc' = "returned" /\ frame' = frame
        ELSE /\ calls' = Append(calls, Call("ocr", 0, OcrExtractText(o.decoded), <<>>, o.ok))
             /\ AfterExtract(frame.route, OcrExtractText(o.decoded))
    /\ UNCHANGED <<lifecycle, unit, pipeline_requests_total, req, response>>

\* _classify_pdf_with_ocr, loop body: page_text = self._ocr.extract_text(img)
\* and the append to all_texts
PdfOcrStep ==
    /\ pc = "pdf_ocr"
    /\ \E o \in OcrOutcomes :
        IF OcrRaises(o)
        THEN /\ calls' = Append(calls, Call("ocr", frame.i, <<>>, <<>>, FALSE))
             /\ ret' = Raise("ocr") /\ pc' = "returned" /\ frame' = frame
        ELSE LET page_text == OcrExtractText(o.decoded)
             IN  /\ calls' = Append(calls, Call("ocr", frame.i, page_text, <<>>, o.ok))
                 /\ frame' = [frame EXCEPT
                        !.page_text = page_text,
                        !.all_texts = IF page_text # <<>> THEN Append(@, page_text) ELSE @]
                 /\ pc' = "pdf_bbox" /\ ret' = ret
    /\ UNCHANGED <<lifecycle, unit, pipeline_requests_total, req, response>>

\* a mutant of DetectBlocks: a failed detection yields a placeholder block
DetectBlocksPlaceholder(present, d) ==
    IF ~present THEN <<>>
    ELSE IF ~d.ok THEN << TextBlock([x |-> 0, y |-> 0, width |-> 0, height |-> 0]) >>
    ELSE BlocksOf(DetectBoxes(d.output))

\* _detect_blocks: the blocks of one page, given the detector's outcome
DetectBlocks(present, d) ==
    IF ~present THEN <<>>
    ELSE IF ~d.ok THEN <<>>
    ELSE BlocksOf(DetectBoxes(d.output))

\* a mutant of BboxCalls: a failed detection is tried a second time
BboxCallsRetried(present, page, d) ==
    IF ~present THEN <<>>
    ELSE IF d.ok THEN << Call("bbox", page, <<>>, DetectBoxes(d.output), TRUE) >>
    ELSE << Call("bbox", page, <<>>, <<>>, FALSE), Call("bbox", page, <<>>, <<>>, FALSE) >>

\* the log entry of one _detect_blocks run (none when there is no extractor)
BboxCalls(present, page, d) ==
    IF ~present THEN <<>>
    ELSE << Call("bbox", page, <<>>, IF d.ok THEN DetectBoxes(d.output) ELSE <<>>, d.ok) >>

\* a mutant of MorePages: the loop is left after its first turn
MorePagesNever(i, page_data) == FALSE

\* `for i, (img, w, h) in enumerate(page_data)`: after turn i there is
\* another page
MorePages(i, page_data) == i + 1 < Len(page_data)

\* a mutant of FullText: only the first page's text is kept
FullTextFirstOnly(pages, all_texts) ==
    IF all_texts = <<>> THEN <<>> ELSE all_texts[1]

\* a mutant of FullText: empty page texts are joined too
FullTextAllPages(pages, all_texts) == Join([k \in 1..Len(pages) |-> pages[k].text])

\* full_text = "\n\n".join(all_texts)
FullText(pages, all_texts) == Join(all_texts)

\* a mutant of PageIndex: pages are numbered from 1
PageIndexFromOne(i) == i + 1

\* the pageIndex given to the page enumerate() numbers i
PageIndex(i) == i

\* _classify_pdf_with_ocr, rest of the loop body: _detect_blocks and
\* pages.append; after the last page the join and the empty-text return
PdfBboxStep ==
    /\ pc = "pdf_bbox"
    /\ \E d \in DetectorOutcomes :
        LET img == frame.page_data[frame.i + 1]
            blocks == DetectBlocks(req.bbox, d)
            pages == Append(frame.pages,
                        OcrPage(PageIndex(frame.i), img.w, img.h, frame.page_text, blocks))
        IN  /\ calls' = calls \o BboxCalls(req.bbox, frame.i, d)
            /\ IF MorePages(frame.i, frame.page_data)
               THEN /\ frame' = [frame EXCEPT !.i = frame.i + 1, !.pages = pages,
                                              !.page_text = <<>>]
                    /\ pc' = "pdf_ocr" /\ ret' = ret
               ELSE LET full_text == FullText(pages, frame.all_texts)
                    IN  IF StripGuard(full_text)
                        THEN /\ ret' = Return(NoTextResult(pages))
                             /\ pc' = "returned"
                             /\ frame' = [frame EXCEPT !.pages = pages, !.i = frame.i + 1]
                        ELSE /\ frame' = [frame EXCEPT !.pages = pages, !.i = frame.i + 1,
                                            !.text = full_text,
                                            !.ocr = <<OcrResult(pages, full_text)>>]
                             /\ pc' = "classify" /\ ret' = ret
    /\ UNCHANGED <<lifecycle, unit, pipeline_requests_total, req, response>>

\* _classify_image_with_ocr: page_text = self._ocr.extract_text(image)
ImageOcrStep ==
    /\ pc = "image_ocr"
    /\ \E o \in OcrOutcomes :
        IF OcrRaises(o)
        THEN /\ calls' = Append(calls, Call("ocr", 0, <<>>, <<>>, FALSE))
             /\ ret' = Raise("ocr") /\ pc' = "returned" /\ frame' = frame
        ELSE /\ calls' = Append(calls, Call("ocr", 0, OcrExtractText(o.decoded), <<>>, o.ok))
             /\ frame' = [frame EXCEPT !.page_text = OcrExtractText(o.decoded)]
             /\ pc' = "image_bbox" /\ ret' = ret
    /\ UNCHANGED <<lifecycle, unit, pipeline_requests_total, req, response>>

\* a mutant of ImagePage: width and height are swapped
ImagePageSwapped(img, page_text, blocks) == OcrPage(0, img.h, img.w, page_text, blocks)

\* the single OcrPage of _classify_image_with_ocr
ImagePage(img, page_text, blocks) == OcrPage(0, img.w, img.h, page_text, blocks)

\* _classify_image_with_ocr: _detect_blocks, the OcrResult and the
\* empty-text return
ImageBboxStep ==
    /\ pc = "image_bbox"
    /\ \E d \in DetectorOutcomes :
        LET image == frame.page_data[1]
            blocks == DetectBlocks(req.bbox, d)
            ocr_result == OcrResult(<<ImagePage(image, frame.page_text, blocks)>>,
                                    frame.page_text)
        IN  /\ calls' = calls \o BboxCalls(req.bbox, 0, d)
            /\ IF StripGuard(frame.page_text)
               THEN /\ ret' = Return(<<"unknown", 0, <<ocr_result>> >>)
                    /\ pc' = "returned"
                    /\ frame' = [frame EXCEPT !.pages = ocr_result.pages, !.i = 1]
               ELSE /\ frame' = [frame EXCEPT !.pages = ocr_result.pages, !.i = 1,
                                   !.text = frame.page_text, !.ocr = <<ocr_result>>]
                    /\ pc' = "classify" /\ ret' = ret
    /\ UNCHANGED <<lifecycle, unit, pipeline_requests_total, req, response>>

\* outcomes of one zero-shot model run: its ranking, or an exception
ModelOutcomes ==
    {[ok |-> TRUE, out |-> m] : m \in ModelOutputs(CandidateLabels)}
    \cup {[ok |-> FALSE, out |-> NoOut]}

\* self._classifier.classify(text, self._candidate_labels) and the return
\* of the pipeline method; the model runs only past the classifier's guard
ClassifyStep ==
    /\ pc = "classify"
    /\ \E m \in ModelOutcomes :
        LET invoked == ~IsBlank(frame.text)
            result == ClassifierClassify(frame.text, m.out)
        IN  /\ invoked \/ m.ok
            /\ calls' = (IF invoked
                          THEN Append(calls, ModelCall(Trimmed(frame.text), m.out, m.ok))
                          ELSE calls)
                        \o <<ClassifyCall(frame.text,
                                          IF invoked /\ ~m.ok THEN <<>> ELSE result,
                                          ~invoked \/ m.ok)>>
            /\ ret' = IF invoked /\ ~m.ok THEN Raise("classifier")
                      ELSE IF req.op = "classify_document" THEN Return(result)
                      ELSE IF Len(result) # 2 THEN Raise("unpack")
                      ELSE Return(<<result[1], result[2], frame.ocr>>)
            /\ pc' = "returned"
    /\ UNCHANGED <<lifecycle, unit, pipeline_requests_total, req, frame, response>>

\* ------------------------------------------------------------- callers

\* a caller that owns a DocumentPipeline (as the unit tests do) calls one
\* of its two operations; bbox tells whether it was built with an extractor.
\* Such calls are made while no application is running.
DirectCall ==
    /\ pc = "idle" /\ phase = "start"
    /\ \E op \in Ops, base \in BaseMimes, casing \in Casings,
          content \in Contents, bbox \in BOOLEAN :
        req' = [via |-> "direct", op |-> op, at |-> "none", mime |-> Recase(base, casing),
                base |-> base, content |-> content, bbox |-> bbox]
    /\ pc' = "enter"
    /\ UNCHANGED <<lifecycle, unit, pipeline_requests_total, frame, calls, ret, response>>

\* the body of the called method up to its first adapter call
DirectEnter ==
    /\ pc = "enter"
    /\ Enter
    /\ UNCHANGED <<lifecycle, unit, pipeline_requests_total, req, calls, response>>

\* the method has returned or raised to the direct caller
DirectDone ==
    /\ pc = "returned" /\ req.via = "direct"
    /\ pc' = "done"
    /\ UNCHANGED <<lifecycle, unit, pipeline_requests_total, req, frame, calls, ret, response>>

EndpointOf(op) == IF op = "classify_document" THEN "/classify" ELSE "/classify-with-ocr"

\* POST /classify or POST /classify-with-ocr reaches its handler; lifespan
\* always builds the pipeline with a bounding-box extractor
Arrive ==
    /\ pc = "idle"
    /\ \E op \in Ops, base \in BaseMimes, casing \in Casings, content \in Contents :
        req' = [via |-> "http", op |-> op, at |-> "none", mime |-> Recase(base, casing),
                base |-> base, content |-> content, bbox |-> TRUE]
    /\ pc' = "check"
    /\ UNCHANGED <<lifecycle, unit, pipeline_requests_total, frame, calls, ret, response>>

\* a mutant of NotReady: only the pipeline reference is tested
NotReadyRefOnly(loaded, ref) == ref = "None"

\* `if not _models_loaded or _pipeline is None`
NotReady(loaded, ref) == ~loaded \/ ref = "None"

\* the readiness check of classify / classify_with_ocr
HandlerCheck ==
    /\ pc = "check"
    /\ IF NotReady(models_loaded, pipeline_ref)
       THEN /\ response' = [status |-> 503, keys |-> {"detail"},
                            detail |-> "Models are still loading", body |-> <<>>]
            /\ pc' = "done"
       ELSE /\ response' = response
            /\ pc' = "invoke"
    /\ UNCHANGED <<lifecycle, unit, pipeline_requests_total, req, frame, calls, ret>>

\* _pipeline.classify_document(...) / _pipeline.classify_and_ocr_document(...):
\* the global is read again; calling a method on None raises inside the try
HandlerInvoke ==
    /\ pc = "invoke"
    /\ IF pipeline_ref = "None"
       THEN /\ ret' = Raise("AttributeError") /\ pc' = "returned" /\ frame' = NoFrame
       ELSE Enter
    /\ UNCHANGED <<lifecycle, unit, pipeline_requests_total, req, calls, response>>

\* the number of names the handler unpacks the pipeline's tuple into
UnpackArity(op) == IF op = "classify_document" THEN 3 ELSE 4

\* the fields of ClassifyResponse / ClassifyWithOcrResponse (schemas.py)
ResponseFields(op) ==
    IF op = "classify_document" THEN {"classification", "confidence"}
    ELSE {"classification", "confidence", "ocr"}

\* a mutant of ErrorResponse: the detail names what went wrong
ErrorResponseNamesCause(cause) ==
    [status |-> 500, keys |-> {"detail"}, detail |-> cause, body |-> <<>>]

\* `except Exception as e: ... raise HTTPException(status_code=500,
\* detail="Classification inference failed") from e`
ErrorResponse(cause) ==
    [status |-> 500, keys |-> {"detail"}, detail |-> "Classification inference failed",
     body |-> <<>>]

\* a mutant of CounterIncrements: success is counted on entering the try
\* block, before the outcome is known
CounterIncrementsSuccessFirst(op, failed) ==
    << [endpoint |-> EndpointOf(op), status |-> "success"] >>
    \o (IF failed THEN << [endpoint |-> EndpointOf(op), status |-> "error"] >> ELSE <<>>)

\* PIPELINE_REQUESTS_TOTAL.labels(endpoint=..., status=...).inc(): with
\* status "success" once the tuple is unpacked, with status "error" in the
\* except clause
CounterIncrements(op, failed) ==
    << [endpoint |-> EndpointOf(op), status |-> IF failed THEN "error" ELSE "success"] >>

\* the rest of the handler's try block: the tuple is unpacked and the
\* response model built; any exception is answered 500
HandlerRespond ==
    /\ pc = "returned" /\ req.via = "http"
    /\ LET failed == ~(ret.kind = "return" /\ Len(ret.value) = UnpackArity(req.op))
       IN /\ pipeline_requests_total' =
                 pipeline_requests_total \o CounterIncrements(req.op, failed)
          /\ response' =
                 IF ~failed
                 THEN [status |-> 200, keys |-> ResponseFields(req.op), detail |-> "none",
                       body |-> <<>>]
                 ELSE ErrorResponse(IF ret.kind = "raise" THEN ret.cause ELSE "ValueError")
    /\ pc' = "done"
    /\ UNCHANGED <<lifecycle, unit, req, frame, calls, ret>>

\* a mutant of HealthStatus: the service always reports itself healthy
HealthStatusAlwaysHealthy(loaded) == "healthy"

\* status="healthy" if _models_loaded else "loading"
HealthStatus(loaded) == IF loaded THEN "healthy" ELSE "loading"

\* GET /health reaches its handler; `at` keeps the lifecycle state it
\* arrived in
HealthArrive ==
    /\ pc = "idle"
    /\ req' = [NoReq EXCEPT !.via = "http", !.op = "health", !.at = phase]
    /\ pc' = "health_status"
    /\ UNCHANGED <<lifecycle, unit, pipeline_requests_total, frame, calls, ret, response>>

\* health: the first keyword argument is evaluated, reading _models_loaded
HealthReadStatus ==
    /\ pc = "health_status"
    /\ response' = [NoResponse EXCEPT !.body = <<HealthStatus(models_loaded)>>]
    /\ pc' = "health_flag"
    /\ UNCHANGED <<lifecycle, unit, pipeline_requests_total, req, frame, calls, ret>>

\* health: the second keyword argument reads _models_loaded again and the
\* HealthResponse is returned
HealthRespond ==
    /\ pc = "health_flag"
    /\ response' = [status |-> 200,
                    keys |-> {"status", "models_loaded", "classifier_model", "ocr_model"},
                    detail |-> "none",
                    body |-> <<response.body[1], models_loaded>>]
    /\ pc' = "done"
    /\ UNCHANGED <<lifecycle, unit, pipeline_requests_total, req, frame, calls, ret>>

\* the call is over; the next one starts from a clean slate
Finish ==
    /\ pc = "done"
    /\ pc' = "idle"
    /\ req' = NoReq /\ frame' = NoFrame /\ calls' = <<>>
    /\ ret' = NoRet /\ response' = NoResponse /\ pipeline_requests_total' = <<>>
    /\ UNCHANGED <<lifecycle, unit>>

Next ==
    \/ LoadClassifier \/ LoadOcr \/ LoadBbox \/ ConstructPipeline \/ SetLoaded
    \/ ClearLoaded \/ ClearPipeline
    \/ DirectCall \/ DirectEnter \/ DirectDone
    \/ Arrive \/ HandlerCheck \/ HandlerInvoke \/ HandlerRespond
    \/ HealthArrive \/ HealthReadStatus \/ HealthRespond
    \/ ExtractPdfStep \/ ExtractImageStep
    \/ PdfOcrStep \/ PdfBboxStep \/ ImageOcrStep \/ ImageBboxStep
    \/ ClassifyStep
    \/ Finish

Spec == Init /\ [][Next]_vars

\* ------------------------------------------------- services on their own
\* ClassifierService.classify, BBoxExtractor.detect_boxes and the two
\* rasterizing functions are also called directly, with arguments the
\* pipeline never passes (blank or over-long text, several polygons, any
\* page limit), as tests/test_classifier.py, tests/test_bbox_extractor.py
\* and tests/test_pdf_converter.py do.

\* the texts a caller hands to ClassifierService.classify
ClassifierTexts == SeqsUpTo(Alphabet, MAX_TEXT_CHARS + 1)

\* the label lists a caller hands to ClassifierService.classify
LabelLists == {<<>>, CandidateLabels}

\* outcomes of one zero-shot model run on a label list; the transformers
\* pipeline raises on an empty one
ModelOutcomesFor(labels) ==
    IF labels = <<>> THEN {[ok |-> FALSE, out |-> NoOut]} ELSE ModelOutcomes

\* polygons a stubbed detector returns: the rectangle of the unit test, a
\* slanted quadrilateral, and a vertical stroke without width
TestPolygons ==
    { << <<10, 20>>, <<100, 20>>, <<100, 50>>, <<10, 50>> >>,
      << <<5, 1>>, <<9, 4>>, <<6, 8>>, <<2, 5>> >>,
      << <<5, 1>>, <<5, 1>>, <<5, 9>>, <<5, 9>> >> }

\* one result of a detector run: dt_polys None, or a list of polygons
TestResults ==
    {[dt_polys |-> <<>>]}
    \cup {[dt_polys |-> <<polys>>] : polys \in SeqsUpTo(TestPolygons, MaxPolys)}

\* what a stubbed detector.predict returns
TestOutputs == SeqsUpTo(TestResults, MaxResults)

\* the documents handed to a rasterizing function: PDFs, and bytes that
\* are no PDF
TestDocuments ==
    {[kind |-> "pdf", text |-> BinaryAsText, pages |-> PagesOf(n)] : n \in 0..MaxDocPages}
    \cup {[kind |-> "text", text |-> BinaryAsText, pages |-> <<>>]}

Rasterizers == {"pdf_bytes_to_images", "pdf_bytes_to_images_with_dims"}

\* the values of ML_CANDIDATE_LABELS: any string of label characters,
\* commas and blanks
LabelStrings == SeqsUpTo({"a", "b", ",", " "}, MaxLabelChars)

InitServices ==
    /\ phase = "start" /\ models_loaded = FALSE /\ pipeline_ref = "None"
    /\ pc = "idle" /\ req = NoReq /\ frame = NoFrame /\ calls = <<>>
    /\ ret = NoRet /\ response = NoResponse /\ pipeline_requests_total = <<>>
    /\ \/ unit \in [fn : {"classify"}, done : {FALSE}, text : ClassifierTexts,
                     labels : LabelLists, invoked : {FALSE}, model_input : {<<>>},
                     raised : {FALSE}, result : {<<>>}]
       \/ unit \in [fn : {"detect_boxes"}, done : {FALSE}, output : TestOutputs,
                     raised : {FALSE}, boxes : {<<>>}]
       \/ unit \in [fn : Rasterizers, done : {FALSE}, content : TestDocuments,
                     max_pages : 0..MaxPagesArg, raised : {FALSE}, images : {<<>>}]
       \/ unit \in [fn : {"get_candidate_labels"}, done : {FALSE},
                     candidate_labels : LabelStrings, labels : {<<>>}]

\* ClassifierService.classify(text, labels)
ServiceClassify ==
    /\ unit.fn = "classify" /\ ~unit.done
    /\ \E m \in ModelOutcomesFor(unit.labels) :
        LET invoked == ~IsBlank(unit.text)
        IN  unit' = [unit EXCEPT
                !.done = TRUE,
                !.invoked = invoked,
                !.model_input = IF invoked THEN Trimmed(unit.text) ELSE <<>>,
                !.raised = invoked /\ ~m.ok,
                !.result = IF invoked /\ ~m.ok THEN <<>>
                           ELSE ClassifierClassify(unit.text, m.out)]
    /\ UNCHANGED application

\* BBoxExtractor.detect_boxes(image): predict raises, or its output is
\* converted
ServiceDetectBoxes ==
    /\ unit.fn = "detect_boxes" /\ ~unit.done
    /\ \E ok \in BOOLEAN :
        unit' = [unit EXCEPT !.done = TRUE, !.raised = ~ok,
                             !.boxes = IF ok THEN DetectBoxes(unit.output) ELSE <<>>]
    /\ UNCHANGED application

\* pdf_bytes_to_images(pdf_bytes, max_pages=...) and
\* pdf_bytes_to_images_with_dims(pdf_bytes, max_pages=...)
ServiceRasterize ==
    /\ unit.fn \in Rasterizers /\ ~unit.done
    /\ unit' = [unit EXCEPT
           !.done = TRUE,
           !.raised = ~PdfOpens(unit.content),
           !.images = IF ~PdfOpens(unit.content) THEN <<>>
                      ELSE IF unit.fn = "pdf_bytes_to_images"
                      THEN PdfBytesToImages(unit.content, unit.max_pages)
                      ELSE PdfBytesToImagesWithDims(unit.content, unit.max_pages)]
    /\ UNCHANGED application

\* settings.get_candidate_labels()
ServiceGetCandidateLabels ==
    /\ unit.fn = "get_candidate_labels" /\ ~unit.done
    /\ unit' = [unit EXCEPT !.done = TRUE,
                            !.labels = GetCandidateLabels(unit.candidate_labels)]
    /\ UNCHANGED application

NextServices ==
    \/ ServiceClassify \/ ServiceDetectBoxes \/ ServiceRasterize
    \/ ServiceGetCandidateLabels

SpecServices == InitServices /\ [][NextServices]_vars

\* ------------------------------------------- correlation id middleware
\* CorrelationIdMiddleware.dispatch around any handler of the application.
\* A header is absent (<<>>) or present with a value, which may be empty.

RequestIds == {"", "r1", "r2"}

\* the values uuid.uuid4() may return
Uuids == {"u1", "u2"}

Headers == {<<>>} \cup {<<v>> : v \in RequestIds}

\* the statuses a handler or FastAPI's exception handlers answer with (422
\* for a body that fails validation)
HandlerStatuses == {200, 422, 500, 503}

\* a mutant of CorrelationId: the request's header is ignored
CorrelationIdAlwaysFresh(header, fresh) == fresh

\* cid = request.headers.get("x-request-id") or str(uuid.uuid4())
CorrelationId(header, fresh) ==
    IF header # <<>> /\ header[1] # "" THEN header[1] ELSE fresh

\* a request as the middleware receives it; correlation_id_var holds its
\* default
NewRequest(served, header) ==
    [fn |-> "dispatch", pc |-> "dispatch", served |-> served, header |-> header,
     cid |-> "", var |-> "", seen |-> <<>>, status |-> 0, out |-> <<>>]

InitMiddleware ==
    /\ phase = "start" /\ models_loaded = FALSE /\ pipeline_ref = "None"
    /\ pc = "idle" /\ req = NoReq /\ frame = NoFrame /\ calls = <<>>
    /\ ret = NoRet /\ response = NoResponse /\ pipeline_requests_total = <<>>
    /\ \E header \in Headers : unit = NewRequest(1, header)

\* dispatch: cid is read or generated and stored in correlation_id_var
MwDispatch ==
    /\ unit.fn = "dispatch" /\ unit.pc = "dispatch"
    /\ \E fresh \in Uuids :
        LET cid == CorrelationId(unit.header, fresh)
        IN  unit' = [unit EXCEPT !.cid = cid, !.var = cid, !.pc = "call_next"]
    /\ UNCHANGED application

\* inside call_next: the handler or a log filter calls get_correlation_id()
MwGetCorrelationId ==
    /\ unit.fn = "dispatch" /\ unit.pc = "call_next"
    /\ Len(unit.seen) < MaxReads
    /\ unit' = [unit EXCEPT !.seen = Append(@, unit.var)]
    /\ UNCHANGED application

\* call_next returns the handler's response
MwCallNextReturns ==
    /\ unit.fn = "dispatch" /\ unit.pc = "call_next"
    /\ \E status \in HandlerStatuses :
        unit' = [unit EXCEPT !.status = status, !.pc = "respond"]
    /\ UNCHANGED application

\* call_next raises (an exception nothing turned into a response): dispatch
\* runs its finally clause, correlation_id_var.reset(token), and the
\* exception leaves it; there is no response to put a header on
MwCallNextRaises ==
    /\ unit.fn = "dispatch" /\ unit.pc = "call_next"
    /\ unit' = [unit EXCEPT !.var = "", !.pc = "raised"]
    /\ UNCHANGED application

\* response.headers["X-Request-ID"] = cid; finally: correlation_id_var.reset(token)
MwRespond ==
    /\ unit.fn = "dispatch" /\ unit.pc = "respond"
    /\ unit' = [unit EXCEPT !.out = <<unit.cid>>, !.var = "", !.pc = "done"]
    /\ UNCHANGED application

\* the next request arrives
MwNextRequest ==
    /\ unit.fn = "dispatch" /\ unit.pc \in {"done", "raised"}
    /\ unit.served < MaxRequests
    /\ \E header \in Headers : unit' = NewRequest(unit.served + 1, header)
    /\ UNCHANGED application

NextMiddleware ==
    \/ MwDispatch \/ MwGetCorrelationId \/ MwCallNextReturns \/ MwCallNextRaises
    \/ MwRespond
    \/ MwNextRequest

SpecMiddleware == InitMiddleware /\ [][NextMiddleware]_vars

\* ------------------------------------------------------ mock ML service
\* docker/mock-ml-service/main.py: POST /classify-with-ocr of the stand-in
\* service, which answers at random.

MOCK_CANDIDATE_LABELS ==
    <<"invoice", "receipt", "contract", "letter", "report", "memo", "form", "other">>

OCR_MIME_TYPES ==
    { ApplicationPdf,
      ImagePrefix \o <<"p","n","g">>,
      ImagePrefix \o <<"j","p","e","g">>,
      ImagePrefix \o <<"g","i","f">>,
      ImagePrefix \o <<"t","i","f","f">>,
      ImagePrefix \o <<"b","m","p">>,
      ImagePrefix \o <<"w","e","b","p">> }

\* the mimeType values sent to the mock: listed and unlisted types, and a
\* listed type in upper case
MockMimeTypes ==
    { ApplicationPdf,
      ImagePrefix \o <<"p","n","g">>,
      ImagePrefix \o <<"w","e","b","p">>,
      ImagePrefix \o <<"h","e","i","c">>,
      TextPrefix \o <<"p","l","a","i","n">>,
      Recase(ImagePrefix \o <<"p","n","g">>, "upper") }

\* random.randint(1, 3) pages in _random_ocr_result
MockMaxPages == 3

\* round(random.uniform(0.60, 0.99), 2), in percent
MockConfidences == 60..99

\* a mutant of MockWantsOcr: every image/* type and application/pdf, in
\* any casing, gets an OCR result
MockWantsOcrByPrefix(mimeType) ==
    MimeLower(mimeType) = ApplicationPdf \/ StartsWith(MimeLower(mimeType), ImagePrefix)

\* `if request.mimeType in OCR_MIME_TYPES`
MockWantsOcr(mimeType) == mimeType \in OCR_MIME_TYPES

\* _random_ocr_result: num_pages pages numbered from 0 (their random sizes,
\* texts and blocks are left out)
MockOcrResult(num_pages) ==
    [pages |-> [k \in 1..num_pages |-> [pageIndex |-> k - 1]]]

InitMock ==
    /\ phase = "start" /\ models_loaded = FALSE /\ pipeline_ref = "None"
    /\ pc = "idle" /\ req = NoReq /\ frame = NoFrame /\ calls = <<>>
    /\ ret = NoRet /\ response = NoResponse /\ pipeline_requests_total = <<>>
    /\ unit \in [fn : {"mock_classify_with_ocr"}, done : {FALSE},
                  mimeType : MockMimeTypes, classification : {"none"},
                  confidence : {0}, ocr : {<<>>}]

\* classify_with_ocr of the mock service
MockClassifyWithOcr ==
    /\ unit.fn = "mock_classify_with_ocr" /\ ~unit.done
    /\ \E k \in 1..Len(MOCK_CANDIDATE_LABELS), confidence \in MockConfidences,
          num_pages \in 1..MockMaxPages :
        unit' = [unit EXCEPT
            !.done = TRUE,
            !.classification = MOCK_CANDIDATE_LABELS[k],
            !.confidence = confidence,
            !.ocr = IF MockWantsOcr(unit.mimeType)
                    THEN <<MockOcrResult(num_pages)>> ELSE <<>>]
    /\ UNCHANGED application

NextMock == MockClassifyWithOcr

SpecMock == InitMock /\ [][NextMock]_vars

\* ================================================================ claims

\* the call has returned or raised
Finished == pc \in {"returned", "done"}

Returned == Finished /\ ret.kind = "return"

CallsTo(adapter) == SelectSeq(calls, LAMBDA c : c.adapter = adapter)

\* empty, or nothing but whitespace
WhitespaceOnly(t) == \A k \in 1..Len(t) : t[k] \in {" ", "\n", "\t"}

\* what the lower-case MIME string stands for
BaseKind(base) ==
    IF base = ApplicationPdf THEN "pdf"
    ELSE IF Len(base) >= 6 /\ SubSeq(base, 1, 6) = <<"i","m","a","g","e","/">> THEN "image"
    ELSE "text"

\* the texts the successful OCR calls returned, in call order
OcrTexts ==
    LET oc == SelectSeq(calls, LAMBDA c : c.adapter = "ocr" /\ c.ok)
    IN  [k \in 1..Len(oc) |-> oc[k].text]

\* the text a finished extraction obtained: the decoded bytes, or the
\* non-empty OCR texts joined by a blank line
ObtainedText ==
    IF BaseKind(req.base) = "text" THEN req.content.text
    ELSE Join(SelectSeq(OcrTexts, LAMBDA t : t # <<>>))

\* C1: on every route of both operations the classifier is never called
\* with empty or whitespace-only text; when the obtained text is empty or
\* whitespace-only the operation returns "unknown" with confidence 0 and
\* the classifier is not called at all.
C1_ClassifierNeverGetsBlankText ==
    /\ \A k \in 1..Len(calls) :
          calls[k].adapter = "classify" => ~WhitespaceOnly(calls[k].text)
    /\ (Returned /\ WhitespaceOnly(ObtainedText)) =>
          /\ CallsTo("classify") = <<>>
          /\ CallsTo("model") = <<>>
          /\ ret.value[1] = "unknown" /\ ret.value[2] = 0

\* a text document of whitespace only was answered without the classifier
C1_Witness ==
    /\ Returned /\ req.op \in Ops
    /\ ObtainedText # <<>> /\ WhitespaceOnly(ObtainedText)
    /\ CallsTo("classify") = <<>>

\* C2: for a MIME type that is neither application/pdf nor image/*,
\* classify_and_ocr_document runs neither the OCR nor the bounding-box
\* adapter and returns a null OCR result, whatever the decoded text.
C2_TextTypesGetNullOcr ==
    (req.op = "classify_and_ocr_document" /\ BaseKind(req.base) = "text") =>
        /\ CallsTo("ocr") = <<>> /\ CallsTo("bbox") = <<>>
        /\ Returned => (Len(ret.value) = 3 /\ ret.value[3] = <<>>)

\* a text document with text in it was classified and returned without OCR
C2_Witness ==
    /\ Returned /\ req.op = "classify_and_ocr_document"
    /\ BaseKind(req.base) = "text" /\ req.mime # req.base
    /\ CallsTo("classify") # <<>> /\ ret.value[3] = <<>>

\* C3: for an image whose OCR succeeds, the value classify_and_ocr_document
\* returns holds an OcrResult of exactly one page, pageIndex 0, the image's
\* width and height, the OCR text as page text and as fullText; with empty
\* OCR text the operation still returns it, with label "unknown" and
\* confidence 0.
C3_ImageOcrResult ==
    (req.op = "classify_and_ocr_document" /\ BaseKind(req.base) = "image" /\ Finished) =>
        /\ Returned =>
            /\ Len(ret.value) = 3 /\ Len(ret.value[3]) = 1
            /\ Len(OcrTexts) = 1
            /\ LET o == ret.value[3][1]
                   img == req.content.pages[1]
               IN  /\ Len(o.pages) = 1
                   /\ o.pages[1].pageIndex = 0
                   /\ o.pages[1].width = img.w /\ o.pages[1].height = img.h
                   /\ o.pages[1].text = OcrTexts[1]
                   /\ o.fullText = OcrTexts[1]
                   /\ OcrTexts[1] = <<>> => (ret.value[1] = "unknown" /\ ret.value[2] = 0)
        /\ (Len(OcrTexts) = 1 /\ OcrTexts[1] = <<>>) => Returned

\* a blank image came back with its one-page OcrResult
C3_Witness ==
    /\ Returned /\ req.op = "classify_and_ocr_document"
    /\ BaseKind(req.base) = "image"
    /\ OcrTexts = << <<>> >>
    /\ Len(ret.value[3]) = 1 /\ ret.value[1] = "unknown"

\* C4: the OcrResult returned for a PDF with n processed pages has n pages,
\* pages[i].pageIndex = i, pages[i].text the OCR text of page i, and
\* fullText the non-empty page texts joined by "\n\n" in page order.
C4_PdfPagesAndFullText ==
    (req.op = "classify_and_ocr_document" /\ BaseKind(req.base) = "pdf" /\ Returned
       /\ ret.value[3] # <<>>) =>
        LET o == ret.value[3][1]
            oc == CallsTo("ocr")
        IN  /\ Len(o.pages) = Len(oc)
            /\ \A k \in 1..Len(o.pages) :
                  /\ o.pages[k].pageIndex = k - 1
                  /\ oc[k].page = k - 1 /\ oc[k].ok
                  /\ o.pages[k].text = oc[k].text
            /\ o.fullText = Join(SelectSeq(OcrTexts, LAMBDA t : t # <<>>))

\* a two-page PDF whose first page is empty and whose second is not
C4_Witness ==
    /\ Returned /\ req.op = "classify_and_ocr_document" /\ BaseKind(req.base) = "pdf"
    /\ Len(ret.value[3]) = 1
    /\ Len(ret.value[3][1].pages) = 2
    /\ ret.value[3][1].pages[1].text = <<>>
    /\ ret.value[3][1].pages[2].text # <<>>

\* the blocks a page must carry: none without an extractor or when its
\* detection failed, else one detection-only block per box the detector
\* returned for that page
ExpectedBlocks(page) ==
    IF ~req.bbox THEN <<>>
    ELSE LET c == CHOOSE c \in {calls[k] : k \in 1..Len(calls)} :
                     c.adapter = "bbox" /\ c.page = page
         IN  IF ~c.ok THEN <<>>
             ELSE [j \in 1..Len(c.boxes) |->
                     [text |-> <<>>, bbox |-> c.boxes[j], confidence |-> <<>>]]

AdapterFailed(adapter) == \E k \in 1..Len(calls) : calls[k].adapter = adapter /\ ~calls[k].ok

\* C5: in classify_and_ocr_document a page processed without an extractor,
\* or whose detection raised, has blocks = [], every other page has exactly
\* the detector's boxes, and a detection failure never makes the call raise.
C5_BboxFailureIsolated ==
    req.op = "classify_and_ocr_document" =>
        /\ (Returned /\ ret.value[3] # <<>>) =>
              LET o == ret.value[3][1]
              IN  \A k \in 1..Len(o.pages) : o.pages[k].blocks = ExpectedBlocks(k - 1)
        /\ ~req.bbox => CallsTo("bbox") = <<>>
        /\ (Finished /\ ret.kind = "raise" /\ AdapterFailed("bbox")) =>
              (AdapterFailed("ocr") \/ AdapterFailed("model"))

\* detection failed on page 0 of a PDF and succeeded, with a box, on page 1
C5_Witness ==
    /\ Returned /\ req.op = "classify_and_ocr_document" /\ req.bbox
    /\ Len(ret.value[3]) = 1 /\ Len(ret.value[3][1].pages) = 2
    /\ \E k \in 1..Len(calls) : calls[k].adapter = "bbox" /\ calls[k].page = 0 /\ ~calls[k].ok
    /\ ret.value[3][1].pages[1].blocks = <<>>
    /\ ret.value[3][1].pages[2].blocks # <<>>

\* C6: a handler that runs its readiness check while the flag is false or
\* the pipeline reference unset answers 503 in that very step, and no
\* pipeline operation or adapter has run for the request.
C6_NotReadyRejected ==
    [][(pc = "check" /\ (~models_loaded \/ pipeline_ref = "None") /\ pc' # "check") =>
          /\ pc' = "done" /\ response'.status = 503
          /\ calls' = <<>> /\ ret' = NoRet /\ frame' = NoFrame]_vars

\* a request arriving during shutdown, flag cleared and reference still set
C6_Witness ==
    /\ pc = "done" /\ response.status = 503
    /\ ~models_loaded /\ pipeline_ref = "pipeline"
    /\ calls = <<>>

\* the branch tag the routing code yields for an operation and a MIME string
RouteTag(op, mime) ==
    IF op = "classify_document" THEN ExtractRoute(mime)
    ELSE IF OcrRoute(mime) = "other" THEN "other_" \o ExtractRoute(mime)
    ELSE OcrRoute(mime)

\* C10: routing is case-insensitive: both operations take, for every
\* letter-casing of a MIME string, the branch they take for the string in
\* lower case (what follows the branch never reads the MIME type).
C10_RoutingIgnoresCase ==
    frame.route # "none" => frame.route = RouteTag(req.op, req.base)

\* an upper-case APPLICATION/PDF went through the PDF branch and returned
C10_Witness ==
    /\ Returned /\ req.base = ApplicationPdf /\ req.mime # req.base
    /\ frame.route \in {"pdf", "pdf_ocr"}
    /\ CallsTo("ocr") # <<>>

\* C7: with the models loaded, a request whose pipeline run completed
\* without failure is answered 200 with exactly the keys classification,
\* confidence and scores (plus ocr for /classify-with-ocr), and 500 is
\* answered only when the pipeline run failed.
C7_SuccessAnswered200 ==
    (pc = "done" /\ req.via = "http" /\ response.status # 503) =>
        /\ ret.kind = "return" =>
              /\ response.status = 200
              /\ response.keys =
                    {"classification", "confidence", "scores"}
                    \cup (IF req.op = "classify_and_ocr_document" THEN {"ocr"} ELSE {})
        /\ response.status = 500 => ret.kind = "raise"

\* the empty scores mapping {}
EmptyScores == <<>>

\* C8: when the obtained text is empty or whitespace-only, classify_document
\* returns exactly ("unknown", 0.0, {}) and classify_and_ocr_document returns
\* "unknown", 0.0 and an empty scores mapping together with its OCR part.
C8_DegenerateResult ==
    (Returned /\ WhitespaceOnly(ObtainedText)) =>
        IF req.op = "classify_document"
        THEN ret.value = <<"unknown", 0, EmptyScores>>
        ELSE /\ Len(ret.value) = 4
             /\ ret.value[1] = "unknown" /\ ret.value[2] = 0
             /\ ret.value[3] = EmptyScores

LabelSet(labels) == {labels[k] : k \in 1..Len(labels)}

\* C9: for text that is not blank, ClassifierService.classify returns
\* (label, confidence, scores): the model's top candidate, its score, and a
\* mapping of exactly the candidate labels to the model's scores, with
\* scores[label] = confidence.
C9_ClassifyReturnsScores ==
    \A k \in 1..Len(calls) :
        (calls[k].adapter = "classify" /\ calls[k].ok /\ ~WhitespaceOnly(calls[k].text)) =>
            LET r == calls[k].result
                m == calls[k - 1]
            IN  /\ Len(r) = 3
                /\ r[1] \in LabelSet(CandidateLabels)
                /\ r[1] = m.labels[1] /\ r[2] = m.scores[1]
                /\ DOMAIN r[3] = LabelSet(CandidateLabels)
                /\ r[3][r[1]] = r[2]

\* C11: when an OCR run or the zero-shot model raises, the pipeline
\* operation stops there and raises to its caller without a value (no
\* OcrResult of the pages processed before), and an HTTP request that
\* failed so is answered 500.
C11_AdapterFailureRaises ==
    (AdapterFailed("ocr") \/ AdapterFailed("model")) =>
        /\ Finished
        /\ ret.kind = "raise" /\ ret.value = <<>>
        /\ ~calls[Len(calls)].ok
        /\ (pc = "done" /\ req.via = "http") => response.status = 500

\* OCR raised on the second page of a PDF sent to /classify-with-ocr, after
\* the first page had been read and its boxes detected
C11_Witness ==
    /\ pc = "done" /\ req.via = "http" /\ req.op = "classify_and_ocr_document"
    /\ Len(CallsTo("ocr")) = 2 /\ CallsTo("ocr")[1].ok /\ ~CallsTo("ocr")[2].ok
    /\ Len(frame.pages) = 1
    /\ ret.kind = "raise" /\ response.status = 500

\* C12: whatever the pipeline raised during an admitted request, the answer
\* is 500 with the detail "Classification inference failed" and nothing else.
C12_FixedErrorDetail ==
    (pc = "done" /\ req.via = "http" /\ ret.kind = "raise") =>
        /\ response.status = 500
        /\ response.keys = {"detail"}
        /\ response.detail = "Classification inference failed"

\* a request whose PDF could not be opened was answered 500 with the fixed
\* detail
C12_Witness ==
    /\ pc = "done" /\ req.via = "http" /\ ret.kind = "raise"
    /\ ret.cause = "pdf_open"
    /\ response.detail = "Classification inference failed"

\* the pipeline method was entered and has returned or raised (a request
\* turned away, or one that found _pipeline cleared, never enters it)
Ended == Finished /\ ret.kind # "none" /\ ret.cause # "AttributeError"

\* C13: for an application/pdf document without pages,
\* classify_and_ocr_document invokes no adapter at all and, once entered,
\* returns label "unknown", confidence 0 and a null OCR result.
C13_ZeroPagePdf ==
    (/\ req.op = "classify_and_ocr_document" /\ BaseKind(req.base) = "pdf"
     /\ req.content.kind = "pdf" /\ req.content.pages = <<>>) =>
        /\ calls = <<>>
        /\ Ended =>
              /\ ret.kind = "return" /\ Len(ret.value) = 3
              /\ ret.value[1] = "unknown" /\ ret.value[2] = 0
              /\ ret.value[3] = <<>>

\* a PDF without pages, declared with an upper-case MIME type, was answered
C13_Witness ==
    /\ Returned /\ req.op = "classify_and_ocr_document"
    /\ req.base = ApplicationPdf /\ req.mime # req.base
    /\ req.content.kind = "pdf" /\ req.content.pages = <<>>
    /\ ret.value[3] = <<>>

\* the pages of the document that are processed
Processed == Min(Len(req.content.pages), OcrMaxPdfPages)

\* C14: for a PDF of which at least one page was processed and every page's
\* OCR text is empty, classify_and_ocr_document returns label "unknown",
\* confidence 0 and an OcrResult with fullText "" that holds every
\* processed page with its index, dimensions, empty text and detected blocks.
C14_EmptyTextPdfKeepsPages ==
    (/\ req.op = "classify_and_ocr_document" /\ BaseKind(req.base) = "pdf"
     /\ Finished /\ Len(OcrTexts) = Processed /\ Processed >= 1
     /\ \A k \in 1..Len(OcrTexts) : OcrTexts[k] = <<>>) =>
        /\ ret.kind = "return" /\ Len(ret.value) = 3
        /\ ret.value[1] = "unknown" /\ ret.value[2] = 0
        /\ Len(ret.value[3]) = 1
        /\ CallsTo("classify") = <<>>
        /\ LET o == ret.value[3][1]
           IN  /\ o.fullText = <<>>
               /\ Len(o.pages) = Processed
               /\ \A k \in 1..Len(o.pages) :
                     /\ o.pages[k].pageIndex = k - 1
                     /\ o.pages[k].width = req.content.pages[k].w
                     /\ o.pages[k].height = req.content.pages[k].h
                     /\ o.pages[k].text = <<>>
                     /\ o.pages[k].blocks = ExpectedBlocks(k - 1)

\* two pages of a three-page PDF were processed, neither had text, and a
\* box was detected on the second
C14_Witness ==
    /\ Returned /\ req.op = "classify_and_ocr_document" /\ req.bbox
    /\ BaseKind(req.base) = "pdf" /\ Len(req.content.pages) = 3
    /\ OcrTexts = << <<>>, <<>> >>
    /\ Len(ret.value[3]) = 1
    /\ Len(ret.value[3][1].pages) = 2
    /\ ret.value[3][1].pages[1].blocks = <<>>
    /\ ret.value[3][1].pages[2].blocks # <<>>

\* C15: ClassifierService.classify called with a text that is empty or
\* whitespace only never runs the zero-shot model, whatever the label list.
C15_BlankTextSkipsModel ==
    (unit.fn = "classify" /\ unit.done /\ WhitespaceOnly(unit.text)) =>
        /\ ~unit.invoked
        /\ unit.model_input = <<>>
        /\ ~unit.raised

\* classify was called with two blanks and the default labels, and
\* returned without running the model
C15_Witness ==
    /\ unit.fn = "classify" /\ unit.done
    /\ unit.text = <<" ", " ">> /\ unit.labels = CandidateLabels
    /\ ~unit.invoked /\ unit.result[1] = "unknown"

\* the first n characters of a text
Prefix(text, n) == [k \in 1..Min(Len(text), n) |-> text[k]]

\* C16: ClassifierService.classify hands the model the first MAX_TEXT_CHARS
\* characters of a longer text and a text of at most MAX_TEXT_CHARS
\* characters unchanged, so that classifying a text and classifying its
\* first MAX_TEXT_CHARS characters run the model on the same input.
C16_TruncationEquivalence ==
    (unit.fn = "classify" /\ unit.done) =>
        LET head == Prefix(unit.text, MAX_TEXT_CHARS)
        IN  /\ unit.invoked => unit.model_input = head
            /\ unit.invoked = ~IsBlank(head)
            /\ unit.invoked => Trimmed(head) = unit.model_input

\* C17: for a PDF of n pages and a page limit max_pages, pdf_bytes_to_images
\* and pdf_bytes_to_images_with_dims return, without raising, exactly the
\* first min(n, max_pages) pages in document order.
C17_FirstPagesOnly ==
    (unit.fn \in Rasterizers /\ unit.done /\ unit.content.kind = "pdf") =>
        LET n == Len(unit.content.pages)
            kept == IF n < unit.max_pages THEN n ELSE unit.max_pages
        IN  /\ ~unit.raised
            /\ Len(unit.images) = kept
            /\ \A k \in 1..kept : unit.images[k] = unit.content.pages[k]

\* a three-page PDF was rasterized with a limit of two pages
C17_Witness ==
    /\ unit.fn = "pdf_bytes_to_images_with_dims" /\ unit.done
    /\ Len(unit.content.pages) = 3 /\ unit.max_pages = 2
    /\ Len(unit.images) = 2

\* C18: OCRService.extract_text_from_images runs OCR once per image, in
\* list order, and returns the non-empty texts joined by a blank line in
\* that order: the empty string when every image's text is empty.
C18_JoinNonEmptyTexts ==
    (/\ req.op = "classify_document" /\ frame.route = "pdf"
     /\ req.content.kind = "pdf" /\ Finished /\ ~AdapterFailed("ocr")) =>
        LET oc == CallsTo("ocr")
        IN  /\ Len(oc) = Processed
            /\ \A k \in 1..Len(oc) : oc[k].page = k - 1
            /\ frame.text = Join(SelectSeq(OcrTexts, LAMBDA t : t # <<>>))
            /\ (\A k \in 1..Len(oc) : oc[k].text = <<>>) => frame.text = <<>>

\* of two pages the first had no text and the second had some, which alone
\* was returned
C18_Witness ==
    /\ Finished /\ req.op = "classify_document" /\ frame.route = "pdf"
    /\ Len(OcrTexts) = 2 /\ OcrTexts[1] = <<>> /\ OcrTexts[2] # <<>>
    /\ frame.text = OcrTexts[2]

\* the polygons of a detector output in detector order, results without
\* polygons contributing none
RECURSIVE PolygonsOf(_)
PolygonsOf(output) ==
    IF output = <<>> THEN <<>>
    ELSE (IF Head(output).dt_polys = <<>> THEN <<>> ELSE Head(output).dt_polys[1])
         \o PolygonsOf(Tail(output))

\* box is the axis-aligned bounding rectangle of polygon
IsBoundingRectangle(box, polygon) ==
    LET xs == {polygon[k][1] : k \in 1..Len(polygon)}
        ys == {polygon[k][2] : k \in 1..Len(polygon)}
    IN  /\ box.x \in xs /\ \A v \in xs : box.x <= v
        /\ box.y \in ys /\ \A v \in ys : box.y <= v
        /\ box.x + box.width \in xs /\ \A v \in xs : v <= box.x + box.width
        /\ box.y + box.height \in ys /\ \A v \in ys : v <= box.y + box.height

\* C19: BBoxExtractor.detect_boxes returns one box per detected polygon, in
\* detector order, each the polygon's axis-aligned bounding rectangle; the
\* polygon (10,20) (100,20) (100,50) (10,50) gives x 10, y 20, width 90,
\* height 30.
C19_BoxPerPolygon ==
    (unit.fn = "detect_boxes" /\ unit.done /\ ~unit.raised) =>
        LET polys == PolygonsOf(unit.output)
        IN  /\ Len(unit.boxes) = Len(polys)
            /\ \A k \in 1..Len(polys) :
                  /\ IsBoundingRectangle(unit.boxes[k], polys[k])
                  /\ polys[k] = << <<10, 20>>, <<100, 20>>, <<100, 50>>, <<10, 50>> >>
                        => unit.boxes[k] = [x |-> 10, y |-> 20, width |-> 90, height |-> 30]

\* two results, the unit test's rectangle and then a slanted quadrilateral,
\* came back as two boxes in that order
C19_Witness ==
    /\ unit.fn = "detect_boxes" /\ unit.done /\ Len(unit.output) = 2
    /\ unit.boxes = << [x |-> 10, y |-> 20, width |-> 90, height |-> 30],
                       [x |-> 2, y |-> 1, width |-> 7, height |-> 7] >>

\* C20: every box BBoxExtractor.detect_boxes returns has width > 0 and
\* height > 0, whatever polygons the detector reported.
C20_BoxesHavePositiveSize ==
    (unit.fn = "detect_boxes" /\ unit.done) =>
        \A k \in 1..Len(unit.boxes) :
            unit.boxes[k].width > 0 /\ unit.boxes[k].height > 0

\* C21: a GET /health handled while the lifecycle stays in one state
\* (before loading, loaded, shutting down or stopped) is answered 200 with
\* models_loaded equal to the readiness flag and status "healthy" exactly
\* when the flag is true, "loading" otherwise; /health is never refused.
C21_HealthReportsFlag ==
    (pc = "done" /\ req.op = "health") =>
        /\ response.status = 200
        /\ response.keys = {"status", "models_loaded", "classifier_model", "ocr_model"}
        /\ req.at = phase =>
              /\ response.body[2] = models_loaded
              /\ response.body[1] = "healthy" <=> models_loaded
              /\ response.body[1] = "loading" <=> ~models_loaded

\* after shutdown the service answers /health with "loading" again
C21_Witness ==
    /\ pc = "done" /\ req.op = "health" /\ phase = "stopped" /\ req.at = phase
    /\ response.status = 200 /\ response.body = <<"loading", FALSE>>

\* C22: whatever delimited string is configured, the list
\* Settings.get_candidate_labels returns is non-empty and holds each label
\* exactly once.
C22_LabelsUnique ==
    (unit.fn = "get_candidate_labels" /\ unit.done) =>
        /\ Len(unit.labels) >= 1
        /\ \A j, k \in 1..Len(unit.labels) : j # k => unit.labels[j] # unit.labels[k]

\* C23: the response of every request carries an X-Request-ID header equal
\* to the request's X-Request-ID when the request has one and to a
\* generated, non-empty identifier otherwise, and get_correlation_id()
\* returns that value all through the handling of the request.
C23_CorrelationIdEchoed ==
    (unit.fn = "dispatch" /\ unit.pc = "done") =>
        /\ Len(unit.out) = 1
        /\ unit.header # <<>> => unit.out[1] = unit.header[1]
        /\ unit.header = <<>> => (unit.out[1] \in Uuids /\ unit.out[1] # "")
        /\ \A k \in 1..Len(unit.seen) : unit.seen[k] = unit.out[1]

\* C23, amended: the response's X-Request-ID equals the request's when that
\* is present and not empty, and is a generated, non-empty identifier when
\* it is absent or empty; get_correlation_id() returns the same value all
\* through the handling of the request, also of one that ends in an
\* exception and so has no response.
C23_NonEmptyCorrelationIdEchoed ==
    (unit.fn = "dispatch" /\ unit.pc \in {"call_next", "respond", "done", "raised"}) =>
        LET cid == IF unit.pc = "done" THEN unit.out[1] ELSE unit.cid
        IN  /\ unit.pc = "done" => Len(unit.out) = 1
            /\ unit.pc = "raised" => unit.out = <<>>
            /\ (unit.header # <<>> /\ unit.header[1] # "") => cid = unit.header[1]
            /\ (unit.header = <<>> \/ unit.header = <<"">>) => (cid \in Uuids /\ cid # "")
            /\ \A k \in 1..Len(unit.seen) : unit.seen[k] = cid

\* the second request brought the id r1, its handler asked for the
\* correlation id twice and failed with 500, and r1 came back
C23_Witness ==
    /\ unit.fn = "dispatch" /\ unit.pc = "done" /\ unit.served = 2
    /\ unit.header = <<"r1">> /\ unit.out = <<"r1">>
    /\ unit.seen = <<"r1", "r1">> /\ unit.status = 500

\* the MIME type is application/pdf or an image/* type
PdfOrImage(mimeType) == mimeType = ApplicationPdf \/ StartsWith(mimeType, ImagePrefix)

\* C24: the mock's POST /classify-with-ocr returns a non-null ocr with at
\* least one page for PDF and image MIME types and a null ocr for every
\* other MIME type, and a classification out of CANDIDATE_LABELS.
C24_MockOcrForPdfAndImages ==
    (unit.fn = "mock_classify_with_ocr" /\ unit.done) =>
        /\ \E k \in 1..Len(MOCK_CANDIDATE_LABELS) :
              unit.classification = MOCK_CANDIDATE_LABELS[k]
        /\ PdfOrImage(unit.mimeType) =>
              (Len(unit.ocr) = 1 /\ Len(unit.ocr[1].pages) >= 1)
        /\ ~PdfOrImage(unit.mimeType) => unit.ocr = <<>>

\* the seven strings of OCR_MIME_TYPES, spelled out
ListedMimeTypes ==
    { <<"a","p","p","l","i","c","a","t","i","o","n","/","p","d","f">>,
      <<"i","m","a","g","e","/","p","n","g">>,
      <<"i","m","a","g","e","/","j","p","e","g">>,
      <<"i","m","a","g","e","/","g","i","f">>,
      <<"i","m","a","g","e","/","t","i","f","f">>,
      <<"i","m","a","g","e","/","b","m","p">>,
      <<"i","m","a","g","e","/","w","e","b","p">> }

\* C24, amended: the mock's POST /classify-with-ocr returns a non-null ocr
\* with at least one page when mimeType is exactly one of the seven types of
\* OCR_MIME_TYPES and a null ocr for every other mimeType, other image/*
\* types and other casings included, and a classification out of
\* CANDIDATE_LABELS.
C24_MockOcrForListedTypes ==
    (unit.fn = "mock_classify_with_ocr" /\ unit.done) =>
        /\ \E k \in 1..Len(MOCK_CANDIDATE_LABELS) :
              unit.classification = MOCK_CANDIDATE_LABELS[k]
        /\ unit.mimeType \in ListedMimeTypes =>
              /\ Len(unit.ocr) = 1
              /\ Len(unit.ocr[1].pages) >= 1
              /\ \A k \in 1..Len(unit.ocr[1].pages) : unit.ocr[1].pages[k].pageIndex = k - 1
        /\ unit.mimeType \notin ListedMimeTypes => unit.ocr = <<>>

\* image/webp was answered with three pages and the label "other"
C24_Witness ==
    /\ unit.fn = "mock_classify_with_ocr" /\ unit.done
    /\ unit.mimeType = <<"i","m","a","g","e","/","w","e","b","p">>
    /\ Len(unit.ocr) = 1 /\ Len(unit.ocr[1].pages) = 3
    /\ unit.classification = "other"

PageAdapters == {"ocr", "bbox"}

\* C25: in classify_and_ocr_document on a PDF the adapter calls follow the
\* pages in increasing order: OCR of a page, then that page's detection,
\* then the next page, nothing of page i+1 before both calls of page i are
\* over; the classifier runs only after the last processed page, and no
\* page adapter runs after it.
C25_PagesInOrder ==
    (req.op = "classify_and_ocr_document" /\ frame.route = "pdf_ocr") =>
        /\ \A k \in 1..Len(CallsTo("ocr")) : CallsTo("ocr")[k].page = k - 1
        /\ \A k \in 1..Len(CallsTo("bbox")) : CallsTo("bbox")[k].page = k - 1
        /\ \A j, k \in 1..Len(calls) :
              (j < k /\ calls[j].adapter \in PageAdapters
                     /\ calls[k].adapter \in PageAdapters) =>
                  /\ calls[j].page <= calls[k].page
                  /\ calls[j].page = calls[k].page =>
                        (calls[j].adapter = "ocr" /\ calls[k].adapter = "bbox")
        /\ \A k \in 2..Len(calls) :
              (calls[k].adapter = "ocr" /\ req.bbox) =>
                  (calls[k - 1].adapter = "bbox" /\ calls[k - 1].page = calls[k].page - 1)
        /\ \A j, k \in 1..Len(calls) :
              (j < k /\ calls[j].adapter \notin PageAdapters) =>
                  calls[k].adapter \notin PageAdapters
        /\ (CallsTo("classify") # <<>>) =>
              /\ Len(CallsTo("ocr")) = Processed
              /\ req.bbox => Len(CallsTo("bbox")) = Processed

\* two pages went through OCR and detection in turn before the classifier
\* was called
C25_Witness ==
    /\ Returned /\ req.op = "classify_and_ocr_document" /\ frame.route = "pdf_ocr"
    /\ Len(req.content.pages) = 3
    /\ [k \in 1..Len(calls) |-> calls[k].adapter]
          = <<"ocr", "bbox", "ocr", "bbox", "model", "classify">>
    /\ [k \in 1..4 |-> calls[k].page] = <<0, 0, 1, 1>>

\* C26: within one request no adapter is retried: OCR runs at most once per
\* page, detection at most once per page, the classifier and its model at
\* most once, also when a detection failed and was absorbed.
C26_NoRetries ==
    /\ \A j, k \in 1..Len(calls) :
          (j < k /\ calls[j].adapter \in PageAdapters
                 /\ calls[j].adapter = calls[k].adapter) =>
              calls[j].page # calls[k].page
    /\ Len(CallsTo("classify")) <= 1
    /\ Len(CallsTo("model")) <= 1

\* detection failed on both pages of a PDF, each was tried once, and the
\* classifier then ran once
C26_Witness ==
    /\ Returned /\ req.op = "classify_and_ocr_document"
    /\ Len(CallsTo("bbox")) = 2
    /\ ~CallsTo("bbox")[1].ok /\ ~CallsTo("bbox")[2].ok
    /\ Len(CallsTo("ocr")) = 2 /\ Len(CallsTo("classify")) = 1

\* the OCR runs an operation makes for a document, whichever operation
OcrRunsDue ==
    IF BaseKind(req.base) = "pdf" THEN Processed
    ELSE IF BaseKind(req.base) = "image" THEN 1 ELSE 0

\* C27: whichever of the two operations runs, the text handed to the
\* classifier is the same function of content, MIME type and OCR outputs
\* (the decoded bytes, or the non-empty OCR texts of the same pages joined
\* by a blank line), the classifier is skipped in the same cases, and the
\* label and confidence returned are the classifier's; so both operations
\* agree on them for the same input and deterministic adapters.
C27_SameTextBothOperations ==
    (/\ Ended /\ ~AdapterFailed("ocr")
     /\ ret.cause \notin {"b64decode", "pdf_open", "image_open"}) =>
        /\ Len(CallsTo("ocr")) = OcrRunsDue
        /\ WhitespaceOnly(ObtainedText) =>
              /\ CallsTo("classify") = <<>>
              /\ ret.kind = "return"
              /\ ret.value[1] = "unknown" /\ ret.value[2] = 0
        /\ ~WhitespaceOnly(ObtainedText) =>
              /\ Len(CallsTo("classify")) = 1
              /\ CallsTo("classify")[1].text = ObtainedText
              /\ CallsTo("classify")[1].ok =>
                    /\ ret.kind = "return"
                    /\ ret.value[1] = CallsTo("classify")[1].result[1]
                    /\ ret.value[2] = CallsTo("classify")[1].result[2]
              /\ ~CallsTo("classify")[1].ok => ret.kind = "raise"

\* classify_and_ocr_document classified the joined text of two pages
C27_Witness ==
    /\ Returned /\ req.op = "classify_and_ocr_document" /\ BaseKind(req.base) = "pdf"
    /\ Len(OcrTexts) = 2 /\ OcrTexts[1] # <<>> /\ OcrTexts[2] # <<>>
    /\ CallsTo("classify")[1].text = OcrTexts[1] \o <<"\n", "\n">> \o OcrTexts[2]
    /\ ret.value[1] = CallsTo("classify")[1].result[1]

\* C28: the readiness flag is true only while the application serves, that
\* is after the three loads returned and the pipeline was constructed, and
\* then the pipeline reference is set; on shutdown the flag is cleared
\* first, so the reference is never None under a true flag; after a load
\* that raised the flag is false and no pipeline exists.
C28_ReadyOnlyWithPipeline ==
    /\ models_loaded => (phase = "serving" /\ pipeline_ref = "pipeline")
    /\ phase \in {"start", "classifier_loaded", "ocr_loaded", "bbox_loaded", "failed"} =>
          (~models_loaded /\ pipeline_ref = "None")
    /\ phase = "constructed" => (~models_loaded /\ pipeline_ref = "pipeline")
    /\ phase = "stopping" => (~models_loaded /\ pipeline_ref = "pipeline")
    /\ phase = "stopped" => (~models_loaded /\ pipeline_ref = "None")

\* shutdown has cleared the flag and not yet the pipeline reference
C28_Witness ==
    phase = "stopping" /\ ~models_loaded /\ pipeline_ref = "pipeline"

\* C29: a handler that passed the readiness check never calls a method on
\* None, whatever shutdown does between the check and the call.
C29_CheckedHandlerUsesPipeline ==
    (req.via = "http" /\ req.op \in Ops /\ response.status # 503) =>
        ret.cause # "AttributeError"

\* C30: a POST request that passed the readiness check has incremented
\* exactly one request counter when it is answered, that of its endpoint:
\* status "success" if and only if the answer is 200, status "error" if and
\* only if it is 500; a request answered 503 has incremented none.
C30_OneCounterPerRequest ==
    (pc = "done" /\ req.via = "http" /\ req.op \in Ops) =>
        /\ response.status \in {200, 500, 503}
        /\ response.status = 503 => pipeline_requests_total = <<>>
        /\ response.status # 503 =>
              /\ Len(pipeline_requests_total) = 1
              /\ pipeline_requests_total[1].endpoint = EndpointOf(req.op)
        /\ (\E k \in 1..Len(pipeline_requests_total) :
                pipeline_requests_total[k].status = "success") <=> response.status = 200
        /\ (\E k \in 1..Len(pipeline_requests_total) :
                pipeline_requests_total[k].status = "error") <=> response.status = 500

\* POST /classify-with-ocr got through the pipeline, was answered 500 and
\* counted once as an error of that endpoint
C30_Witness ==
    /\ pc = "done" /\ req.via = "http" /\ req.op = "classify_and_ocr_document"
    /\ ret.kind = "return" /\ response.status = 500
    /\ pipeline_requests_total
          = << [endpoint |-> "/classify-with-ocr", status |-> "error"] >>

====
